---- MODULE Spec2Model ----
(***************************************************************************)
(* regrippy, regrip.py: hive-path resolution (first, find_file_nocase,      *)
(* find_path_nocase, get_hive_paths) and the dispatch loop of main.         *)
(*                                                                         *)
(* A path is a sequence of segments; os.path.join(a, *parts) is a \o parts, *)
(* the empty string is <<>>.  A value that may be None is a record          *)
(* [isNone, s].  The filesystem is a function from the paths of its         *)
(* directories to their listings (os.listdir order); an entry of a listing  *)
(* whose path is no directory is a file.                                    *)
(***************************************************************************)
EXTENDS Naturals, Sequences, FiniteSets, TLC

VARIABLES args, env, fs, is_pipe, hive_names,
          pc, idx, hive_paths, pidx, results,
          stderr, opened, instances, emitted, status,
          reghive, query, ret

vars == <<args, env, fs, is_pipe, hive_names, pc, idx, hive_paths, pidx,
          results, stderr, opened, instances, emitted, status, reghive, query, ret>>

-----------------------------------------------------------------------------
(* Bounds of the model *)

\* longest plugin declaration (__REGHIVE__ list) explored by the dispatch runs
MaxDecl == 2
\* longest result sequence a plugin run yields
MaxResults == 2
\* most entries in the user-profiles directory
MaxProfiles == 2

-----------------------------------------------------------------------------
(* str.lower() on the names that occur on disk, in requests and in plugin   *)
(* declarations: every name with an upper-case letter is listed.           *)

UpperToLower ==
    ("SYSTEM" :> "system") @@ ("SOFTWARE" :> "software") @@ ("SAM" :> "sam")
 @@ ("Sam" :> "sam") @@ ("NTUSER.DAT" :> "ntuser.dat")
 @@ ("USRCLASS.DAT" :> "usrclass.dat") @@ ("UsrClass.dat" :> "usrclass.dat")
 @@ ("ALL" :> "all") @@ ("BCD" :> "bcd")
 @@ ("Windows" :> "windows") @@ ("WINDOWS" :> "windows")
 @@ ("System32" :> "system32") @@ ("Config" :> "config")
 @@ ("Users" :> "users")
 @@ ("Documents and Settings" :> "documents and settings")
 @@ ("Documents And Settings" :> "documents and settings")
 @@ ("AppData" :> "appdata") @@ ("Local" :> "local")
 @@ ("Microsoft" :> "microsoft") @@ ("Alice" :> "alice")

Lower(s) == IF s \in DOMAIN UpperToLower THEN UpperToLower[s] ELSE s

-----------------------------------------------------------------------------
(* Optional values and first() *)

None == [isNone |-> TRUE, s |-> <<>>]
Some(p) == [isNone |-> FALSE, s |-> p]

\* Python truthiness of a str-or-None
Truthy(v) == ~v.isNone /\ v.s # <<>>

RECURSIVE FirstLast(_)
FirstLast(as) ==
    IF as = <<>> THEN None
    ELSE IF Truthy(as[Len(as)]) THEN as[Len(as)]
    ELSE FirstLast(SubSeq(as, 1, Len(as) - 1))

RECURSIVE First(_)
First(as) ==
    IF as = <<>> THEN None
    ELSE IF Truthy(Head(as)) THEN Head(as)
    ELSE First(Tail(as))

-----------------------------------------------------------------------------
(* The filesystem calls *)

IsDir(f, p) == p \in DOMAIN f

IsFile(f, p) ==
    /\ p # <<>>
    /\ p \notin DOMAIN f
    /\ SubSeq(p, 1, Len(p) - 1) \in DOMAIN f
    /\ \E i \in 1..Len(f[SubSeq(p, 1, Len(p) - 1)]) :
          f[SubSeq(p, 1, Len(p) - 1)][i] = p[Len(p)]

\* os.listdir: the listing, or the exception it raises
ListDir(f, p) ==
    IF IsDir(f, p) THEN [kind |-> "ok", names |-> f[p], exc |-> ""]
    ELSE IF IsFile(f, p)
         THEN [kind |-> "raise", names |-> <<>>, exc |-> "NotADirectoryError"]
         ELSE [kind |-> "raise", names |-> <<>>, exc |-> "FileNotFoundError"]

RECURSIVE FirstMatch(_, _)
FirstMatch(names, file_name) ==
    IF names = <<>> THEN [kind |-> "none", name |-> "", exc |-> ""]
    ELSE IF Lower(Head(names)) = Lower(file_name)
         THEN [kind |-> "found", name |-> Head(names), exc |-> ""]
         ELSE FirstMatch(Tail(names), file_name)

FindFileNocase(f, root, file_name) ==
    LET l == ListDir(f, root) IN
    IF l.kind = "raise" THEN [kind |-> "raise", name |-> "", exc |-> l.exc]
    ELSE FirstMatch(l.names, file_name)

PathNone == [kind |-> "none", path |-> <<>>, exc |-> ""]
PathFound(p) == [kind |-> "found", path |-> p, exc |-> ""]
PathRaise(e) == [kind |-> "raise", path |-> <<>>, exc |-> e]

RECURSIVE FindPathLoop(_, _, _, _)
FindPathLoop(f, root_path, rest_list, full_path_parts) ==
    IF rest_list = <<>> THEN PathFound(root_path \o full_path_parts)
    ELSE LET actual_name ==
                 FindFileNocase(f, root_path \o full_path_parts, Head(rest_list))
         IN  IF actual_name.kind = "raise" THEN PathRaise(actual_name.exc)
             ELSE IF actual_name.kind = "none" THEN PathNone
             ELSE FindPathLoop(f, root_path, Tail(rest_list),
                               Append(full_path_parts, actual_name.name))

FindPathNocase(f, root_path, rest_list) ==
    FindPathLoop(f, root_path, rest_list, <<>>)

\* a find_path_nocase result as a str-or-None
AsOpt(r) == IF r.kind = "found" THEN Some(r.path) ELSE None

-----------------------------------------------------------------------------
(* get_hive_paths: what a call does is to return a list or None, to exit,  *)
(* or to raise.                                                            *)

Return(ps) == [kind |-> "return", none |-> FALSE, paths |-> ps, code |-> 0, exc |-> ""]
ReturnNone == [kind |-> "return", none |-> TRUE, paths |-> <<>>, code |-> 0, exc |-> ""]
Exit(c) == [kind |-> "exit", none |-> FALSE, paths |-> <<>>, code |-> c, exc |-> ""]
Raise(e) == [kind |-> "raise", none |-> FALSE, paths |-> <<>>, code |-> 0, exc |-> e]

ConfigParts(name) == <<"windows", "system32", "config", name>>
UsrclassParts == <<"appdata", "local", "microsoft", "windows", "usrclass.dat">>
UserHiveNames == {"ntuser.dat", "usrclass.dat"}
NeedsRootNames == {"all", "ntuser.dat", "usrclass.dat"}

\* the explicit override argument and the environment variable of a hive
Override(a, lname) ==
    CASE lname = "system" -> a.system
      [] lname = "software" -> a.software
      [] lname = "sam" -> a.sam
      [] lname = "ntuser.dat" -> a.ntuser
      [] lname = "usrclass.dat" -> a.usrclass
      [] OTHER -> <<>>

GetEnv(e, lname) ==
    CASE lname = "system" -> e.REG_SYSTEM
      [] lname = "software" -> e.REG_SOFTWARE
      [] lname = "sam" -> e.REG_SAM
      [] lname = "ntuser.dat" -> e.REG_NTUSER
      [] lname = "usrclass.dat" -> e.REG_USRCLASS
      [] OTHER -> None

\* lines 47-55: the arguments of first() are all evaluated before the call
BasicHive(a, e, f, lname) ==
    LET probe == IF a.root # <<>>
                 THEN FindPathNocase(f, a.root, ConfigParts(lname))
                 ELSE PathNone
    IN  IF probe.kind = "raise" THEN Raise(probe.exc)
        ELSE LET path == First(<<Some(Override(a, lname)), AsOpt(probe),
                                 GetEnv(e, lname)>>)
             IN  IF Truthy(path) THEN Return(<<path.s>>) ELSE ReturnNone

\* lines 56-61
SingleUserHive(a, e, lname) ==
    LET path == First(<<Some(Override(a, lname)), GetEnv(e, lname)>>)
    IN  IF Truthy(path) THEN Return(<<path.s>>) ELSE ReturnNone

\* line 83 as it would read if the probe started at the user's directory
UsrclassProbePerUser(f, users_folder, user_dir) ==
    FindPathNocase(f, Append(users_folder, user_dir), UsrclassParts)

\* line 83: the probe starts at the profiles directory
UsrclassProbe(f, users_folder, user_dir) ==
    FindPathNocase(f, users_folder, UsrclassParts)

\* lines 75-87: the loop over os.listdir(users_folder)
RECURSIVE UserDirLoop(_, _, _, _, _)
UserDirLoop(f, users_folder, lname, user_dirs, acc) ==
    IF user_dirs = <<>> THEN Return(acc)
    ELSE IF ~IsDir(f, Append(users_folder, Head(user_dirs)))
         THEN UserDirLoop(f, users_folder, lname, Tail(user_dirs), acc)
    ELSE LET path == IF lname = "ntuser.dat"
                     THEN FindPathNocase(f, Append(users_folder, Head(user_dirs)),
                                         <<"ntuser.dat">>)
                     ELSE UsrclassProbe(f, users_folder, Head(user_dirs))
         IN  IF path.kind = "raise" THEN Raise(path.exc)
             ELSE UserDirLoop(f, users_folder, lname, Tail(user_dirs),
                              IF path.kind = "found" THEN Append(acc, path.path)
                              ELSE acc)

\* lines 66-69: "users", then "Documents And Settings"
UsersFolder(f, root) ==
    LET u == FindPathNocase(f, root, <<"users">>) IN
    IF u.kind # "none" THEN u
    ELSE FindPathNocase(f, root, <<"Documents And Settings">>)

\* lines 64-87
AllUserHives(a, f, lname) ==
    LET users_folder == UsersFolder(f, a.root) IN
    IF users_folder.kind = "raise" THEN Raise(users_folder.exc)
    ELSE IF users_folder.kind = "none" THEN Raise("RuntimeError")
    ELSE LET l == ListDir(f, users_folder.path) IN
         IF l.kind = "raise" THEN Raise(l.exc)
         ELSE UserDirLoop(f, users_folder.path, lname, l.names, <<>>)

RootCheckOnlyAll(a, lname) ==
    lname = "all" /\ a.all_user_hives /\ a.root = <<>>

\* line 42
RootCheckFails(a, lname) ==
    lname \in NeedsRootNames /\ a.all_user_hives /\ a.root = <<>>

\* get_hive_paths for every name but "all"
GetNamedHivePaths(a, e, f, hive_name) ==
    LET lname == Lower(hive_name) IN
    IF RootCheckFails(a, lname) THEN Exit(3)
    ELSE IF lname \in {"system", "software", "sam"} THEN BasicHive(a, e, f, lname)
    ELSE IF lname \in UserHiveNames /\ ~a.all_user_hives
         THEN SingleUserHive(a, e, lname)
    ELSE IF lname \in UserHiveNames /\ a.all_user_hives
         THEN AllUserHives(a, f, lname)
    ELSE ReturnNone

HiveOrderSwapped == <<"system", "sam", "software", "ntuser.dat", "usrclass.dat">>

\* line 91
HiveOrder == <<"system", "software", "sam", "ntuser.dat", "usrclass.dat">>

\* lines 90-95: a hive's exit or exception ends the loop
RECURSIVE AllLoop(_, _, _, _, _)
AllLoop(a, e, f, hives, acc) ==
    IF hives = <<>> THEN Return(acc)
    ELSE LET paths == GetNamedHivePaths(a, e, f, Head(hives)) IN
         IF paths.kind # "return" THEN paths
         ELSE AllLoop(a, e, f, Tail(hives),
                      IF paths.paths # <<>> THEN acc \o paths.paths ELSE acc)

GetHivePaths(a, e, f, hive_name) ==
    IF Lower(hive_name) = "all"
    THEN IF RootCheckFails(a, "all") THEN Exit(3)
         ELSE AllLoop(a, e, f, HiveOrder, <<>>)
    ELSE GetNamedHivePaths(a, e, f, hive_name)

-----------------------------------------------------------------------------
(* The filesystems the runs start from.  A tree is the entries it adds to   *)
(* the listing of the root and the directories it holds.                   *)

Root == <<"mnt">>
\* a --root that names no directory
GoneRoot == <<"gone">>

NoDirs == [p \in {} |-> <<>>]
Tree(entry, dirs) == [entry |-> entry, dirs |-> dirs]

ConfigTree(win, sys32, listing) ==
    Tree(<<win>>,
         (Root \o <<win>> :> <<sys32>>)
      @@ (Root \o <<win, sys32>> :> <<"config">>)
      @@ (Root \o <<win, sys32, "config">> :> listing))

WinTrees ==
    { Tree(<<>>, NoDirs),
      \* "Windows" is a file
      Tree(<<"Windows">>, NoDirs),
      \* no system32
      Tree(<<"WINDOWS">>, (Root \o <<"WINDOWS">> :> <<>>)),
      \* "config" is a file
      Tree(<<"Windows">>,
           (Root \o <<"Windows">> :> <<"System32">>)
        @@ (Root \o <<"Windows", "System32">> :> <<"config">>)),
      ConfigTree("Windows", "System32", <<>>),
      ConfigTree("Windows", "System32", <<"SYSTEM", "SOFTWARE", "SAM">>),
      ConfigTree("windows", "system32", <<"system", "SYSTEM", "software">>) }

\* what a profiles directory may hold
ProfileEntries == {"Alice", "bob", "carol", "desktop.ini", "AppData", "appdata"}

UsrclassChain(base) ==
       (base :> <<"Local">>)
    @@ (base \o <<"Local">> :> <<"Microsoft">>)
    @@ (base \o <<"Local", "Microsoft">> :> <<"Windows">>)
    @@ (base \o <<"Local", "Microsoft", "Windows">> :> <<"UsrClass.dat">>)

\* the directories of one entry of the profiles directory u
ProfileDirs(u, name) ==
    CASE name = "Alice" ->
             (u \o <<"Alice">> :> <<"AppData", "NTUSER.DAT">>)
          @@ UsrclassChain(u \o <<"Alice", "AppData">>)
      [] name = "bob" -> (u \o <<"bob">> :> <<"ntuser.dat">>)
      [] name = "carol" -> (u \o <<"carol">> :> <<>>)
      [] name = "AppData" -> UsrclassChain(u \o <<"AppData">>)
      \* "desktop.ini" and "appdata" are files
      [] OTHER -> NoDirs

RECURSIVE ProfilesDirs(_, _)
ProfilesDirs(u, listing) ==
    IF listing = <<>> THEN NoDirs
    ELSE ProfileDirs(u, Head(listing)) @@ ProfilesDirs(u, Tail(listing))

Distinct(s) == \A i, j \in 1..Len(s) : i # j => s[i] # s[j]

SeqsUpTo(S, n) == UNION { [1..k -> S] : k \in 0..n }

ProfileListings == { l \in SeqsUpTo(ProfileEntries, MaxProfiles) : Distinct(l) }

UsersTree(name, listing) ==
    Tree(<<name>>,
         (Root \o <<name>> :> listing) @@ ProfilesDirs(Root \o <<name>>, listing))

UserTrees ==
    { Tree(<<>>, NoDirs),
      \* "Users" is a file
      Tree(<<"Users">>, NoDirs) }
    \cup { UsersTree(n, l) : n \in {"Users", "Documents and Settings"},
                             l \in ProfileListings }

MakeFs(w, u) == (Root :> (w.entry \o u.entry)) @@ w.dirs @@ u.dirs

FileSystems == { MakeFs(w, u) : w \in WinTrees, u \in UserTrees }

\* the mount of the spec's example: the three system hives and two profiles
ExampleFs ==
    MakeFs(ConfigTree("Windows", "System32", <<"SYSTEM", "SOFTWARE", "SAM">>),
           UsersTree("Users", <<"bob", "Alice">>))

-----------------------------------------------------------------------------
(* Command lines and environments *)

HiveKinds == {"system", "software", "sam", "ntuser.dat", "usrclass.dat"}

Stdin == <<"-">>
Cli(k) == <<"cli", k>>
EnvPath(k) == <<"env", k>>

MakeArgs(over, root, all) ==
    [pipe |-> FALSE, system |-> over["system"], software |-> over["software"], sam |-> over["sam"],
     ntuser |-> over["ntuser.dat"], usrclass |-> over["usrclass.dat"],
     root |-> root, all_user_hives |-> all]

MakeEnv(val) ==
    [REG_SYSTEM |-> val["system"], REG_SOFTWARE |-> val["software"],
     REG_SAM |-> val["sam"], REG_NTUSER |-> val["ntuser.dat"],
     REG_USRCLASS |-> val["usrclass.dat"]]

\* the overrides given for the kinds of K, argparse's default "" for the rest
OverridesFor(K) == [k \in HiveKinds |-> IF k \in K THEN Cli(k) ELSE <<>>]
EnvFor(K) == [k \in HiveKinds |-> IF k \in K THEN Some(EnvPath(k)) ELSE None]
\* every variable set to the empty string
EnvEmptyStrings == [k \in HiveKinds |-> Some(<<>>)]

OverrideChoices ==
    { OverridesFor(K) : K \in { {}, {"system"}, {"software", "ntuser.dat"},
                                {"sam", "usrclass.dat"}, HiveKinds } }

EnvChoices ==
    { EnvFor(K) : K \in { {}, {"system", "ntuser.dat"},
                          {"software", "sam", "usrclass.dat"}, HiveKinds } }
    \cup { EnvEmptyStrings }

\* a root and the filesystem it is used with
Mounts ==
    { [root |-> Root, fs |-> f] : f \in FileSystems }
    \cup { [root |-> GoneRoot, fs |-> ExampleFs], [root |-> <<>>, fs |-> ExampleFs] }

QueryNames == {"SYSTEM", "system", "SOFTWARE", "Sam", "NTUSER.DAT", "ntuser.dat",
               "USRCLASS.DAT", "UsrClass.dat", "ALL", "all", "BCD"}

-----------------------------------------------------------------------------
(* Calls of get_hive_paths on their own *)

InitResolve ==
    /\ \E o \in OverrideChoices, m \in Mounts, all \in BOOLEAN :
          /\ args = MakeArgs(o, m.root, all)
          /\ fs = m.fs
    /\ \E v \in EnvChoices : env = MakeEnv(v)
    /\ is_pipe = FALSE /\ hive_names = <<>>
    /\ reghive = [is_str |-> FALSE, name |-> "", names |-> <<>>]
    /\ pc = "idle" /\ idx = 1 /\ hive_paths = <<>> /\ pidx = 1 /\ results = <<>>
    /\ stderr = <<>> /\ opened = <<>> /\ instances = <<>> /\ emitted = <<>>
    /\ status = 0
    /\ query = "" /\ ret = ReturnNone

Call(hive_name) ==
    /\ pc = "idle"
    /\ query' = hive_name
    /\ ret' = GetHivePaths(args, env, fs, hive_name)
    /\ pc' = "returned"
    /\ UNCHANGED <<args, env, fs, is_pipe, hive_names, reghive, idx, hive_paths,
                   pidx, results, stderr, opened, instances, emitted, status>>

NextResolve == \E n \in QueryNames : Call(n)

SpecResolve == InitResolve /\ [][NextResolve]_vars

-----------------------------------------------------------------------------
(* Properties of get_hive_paths, checked on SpecResolve *)

BasicNames == {"system", "software", "sam"}
Returned == pc = "returned"
LQuery == Lower(query)

IsPrefix(p, q) == Len(p) <= Len(q) /\ SubSeq(q, 1, Len(p)) = p

\* the path the root yields for a system hive, None when the probe finds
\* nothing (or cannot look)
RootDerived(lname) ==
    IF args.root # <<>>
    THEN AsOpt(FindPathNocase(fs, args.root, ConfigParts(lname)))
    ELSE None

PriorityChain(lname) ==
    IF Override(args, lname) # <<>> THEN Return(<<Override(args, lname)>>)
    ELSE IF Truthy(RootDerived(lname)) THEN Return(<<RootDerived(lname).s>>)
    ELSE IF Truthy(GetEnv(env, lname)) THEN Return(<<GetEnv(env, lname).s>>)
    ELSE ReturnNone

\* C1 (as stated): for SYSTEM, SOFTWARE and SAM in any letter case,
\* get_hive_paths returns the one-element list of the first non-empty of the
\* override, the path resolved under the root, and the environment variable;
\* a root without the file falls through to the environment variable; None
\* when all three yield nothing.
C1_PriorityChain ==
    (Returned /\ LQuery \in BasicNames) => ret = PriorityChain(LQuery)

\* The same chain wherever the probe under the root does not raise.
PriorityChainUnlessRaise ==
    (Returned /\ LQuery \in BasicNames) =>
        IF args.root # <<>>
           /\ FindPathNocase(fs, args.root, ConfigParts(LQuery)).kind = "raise"
        THEN ret.kind = "raise"
        ELSE ret = PriorityChain(LQuery)

\* C7 (as stated): resolving SYSTEM, SOFTWARE or SAM never raises: a root
\* that does not exist, or a matched intermediate segment that is a file,
\* gives "not found", and the call falls through to the environment variable
\* or returns empty.
C7_NeverRaises ==
    (Returned /\ LQuery \in BasicNames) => ret.kind = "return"

\* C4 (as stated): for each of the five hive kinds, under every root and
\* all-user-hives setting in which the call returns, a non-empty override
\* makes the result exactly the one-element list holding it.
C4_OverrideAlwaysWins ==
    (Returned /\ LQuery \in HiveKinds /\ ret.kind = "return"
       /\ Override(args, LQuery) # <<>>)
    => ret = Return(<<Override(args, LQuery)>>)

NoOverrides == [k \in HiveKinds |-> <<>>]
NoEnv == MakeEnv([k \in HiveKinds |-> None])

\* C4 (amended): a non-empty override wins for SYSTEM, SOFTWARE and SAM under
\* every setting in which the call returns, and for NTUSER.DAT and
\* USRCLASS.DAT when all-user-hives is off; with all-user-hives on, the
\* result for NTUSER.DAT and USRCLASS.DAT is the enumeration under the root,
\* whatever the overrides and the environment variables are.
C4_OverrideWins ==
    /\ (Returned /\ ret.kind = "return" /\ Override(args, LQuery) # <<>>
          /\ (LQuery \in BasicNames
                \/ (LQuery \in UserHiveNames /\ ~args.all_user_hives)))
       => ret = Return(<<Override(args, LQuery)>>)
    /\ (Returned /\ LQuery \in UserHiveNames /\ args.all_user_hives)
       => ret = GetHivePaths(MakeArgs(NoOverrides, args.root, TRUE), NoEnv,
                             fs, query)

C4_Witness ==
    /\ Returned /\ query = "NTUSER.DAT" /\ ~args.all_user_hives
    /\ args.root = Root
    /\ args.ntuser = Cli("ntuser.dat")
    /\ env.REG_NTUSER = Some(EnvPath("ntuser.dat"))
    /\ ret = Return(<<Cli("ntuser.dat")>>)

Sub(k) == GetHivePaths(args, env, fs, k)

ExampleArgs == MakeArgs(NoOverrides, Root, TRUE)

\* C6: resolving ALL returns the results of system, software, sam,
\* ntuser.dat and usrclass.dat, resolved with the same arguments,
\* concatenated in that order; on the example mount (the three system hives
\* and a users directory of two profiles with an ntuser.dat each, no
\* overrides, no environment, all-user-hives on) that is five paths: system,
\* software, sam, then the two ntuser.dat in listing order.
C6_AllConcatenates ==
    /\ (Returned /\ LQuery = "all" /\ ret.kind = "return") =>
          /\ \A k \in HiveKinds : Sub(k).kind = "return"
          /\ ~ret.none
          /\ ret.paths = Sub("system").paths \o Sub("software").paths
                           \o Sub("sam").paths \o Sub("ntuser.dat").paths
                           \o Sub("usrclass.dat").paths
    /\ (Returned /\ LQuery = "all" /\ \A k \in HiveKinds : Sub(k).kind = "return")
          => ret.kind = "return"
    /\ (Returned /\ LQuery = "all" /\ args = ExampleArgs /\ env = NoEnv
          /\ fs = ExampleFs)
          => ret = Return(<< Root \o <<"Windows", "System32", "config", "SYSTEM">>,
                             Root \o <<"Windows", "System32", "config", "SOFTWARE">>,
                             Root \o <<"Windows", "System32", "config", "SAM">>,
                             Root \o <<"Users", "bob", "ntuser.dat">>,
                             Root \o <<"Users", "Alice", "NTUSER.DAT">> >>)

C6_Witness ==
    /\ Returned /\ query = "ALL" /\ args = ExampleArgs /\ env = NoEnv
    /\ fs = ExampleFs /\ ret.kind = "return" /\ Len(ret.paths) = 5

\* the profiles directory, when the root holds one that is a directory
Profiles == UsersFolder(fs, args.root)
HasProfiles ==
    /\ args.root # <<>>
    /\ Profiles.kind = "found"
    /\ IsDir(fs, Profiles.path)

ProfileSubdirs ==
    { i \in 1..Len(fs[Profiles.path]) :
          IsDir(fs, Append(Profiles.path, fs[Profiles.path][i])) }

Repeat(x, n) == [i \in 1..n |-> x]

UsrclassAll == Returned /\ LQuery = "usrclass.dat" /\ args.all_user_hives /\ HasProfiles

\* C9 (as stated): with all-user-hives on and a profiles directory, the
\* result for USRCLASS.DAT is empty or the one path
\* <profiles>/appdata/local/microsoft/windows/usrclass.dat repeated once per
\* profile subdirectory, and no path of it lies inside a profile subdirectory.
C9_NeverInsideAProfile ==
    (UsrclassAll /\ ret.kind = "return") =>
        /\ \/ ret.paths = <<>>
           \/ ret.paths = Repeat(FindPathNocase(fs, Profiles.path, UsrclassParts).path,
                                 Cardinality(ProfileSubdirs))
        /\ \A j \in 1..Len(ret.paths) : \A i \in ProfileSubdirs :
              ~IsPrefix(Append(Profiles.path, fs[Profiles.path][i]), ret.paths[j])

\* C9 (amended): the probe starts at the profiles directory and is made once
\* per profile subdirectory: with no subdirectory the result is empty; if the
\* probe meets a file where it needs a directory the call raises; otherwise
\* the result is empty or the one found path repeated once per subdirectory.
\* That path is not built from the loop's user directory, but it does lie
\* inside a profile subdirectory: the one matching "appdata".
C9_SamePathPerProfile ==
    UsrclassAll =>
        LET probe == FindPathNocase(fs, Profiles.path, UsrclassParts)
            n == Cardinality(ProfileSubdirs)
        IN  IF n = 0 THEN ret = Return(<<>>)
            ELSE IF probe.kind = "raise" THEN ret = Raise(probe.exc)
            ELSE IF probe.kind = "none" THEN ret = Return(<<>>)
            ELSE /\ ret = Return(Repeat(probe.path, n))
                 /\ Len(probe.path) = Len(Profiles.path) + 5
                 /\ IsPrefix(Profiles.path, probe.path)
                 /\ Lower(probe.path[Len(Profiles.path) + 1]) = "appdata"
                 /\ \E i \in ProfileSubdirs :
                       IsPrefix(Append(Profiles.path, fs[Profiles.path][i]),
                                probe.path)

C9_Witness ==
    /\ UsrclassAll /\ ret.kind = "return" /\ Len(ret.paths) = 2
    /\ Cardinality(ProfileSubdirs) = 2
    /\ ret.paths[1] = ret.paths[2]

-----------------------------------------------------------------------------
(* main: the dispatch loop.  pc is the place in the loop: "loop" at line    *)
(* 160, "open" at line 166, "run" at line 173, "display" at line 176;       *)
(* "done" after the loop, "exited" after sys.exit, "raised" after an        *)
(* exception nothing catches.  opened, instances and stderr record what has *)
(* happened, each entry with the iteration (i, j) it happened in; emitted   *)
(* is what the latest plugin instance has written.                          *)

DeclNames == {"SYSTEM", "SOFTWARE", "NTUSER.DAT", "ntuser.dat", "USRCLASS.DAT", "ALL"}

\* plugin.__REGHIVE__: a str or a list
RegHives ==
    { [is_str |-> TRUE, name |-> n, names |-> <<>>] : n \in DeclNames }
    \cup { [is_str |-> FALSE, name |-> "", names |-> l] :
              l \in SeqsUpTo(DeclNames, MaxDecl) }

\* lines 155-158
HiveNamesOf(r) == IF r.is_str THEN <<r.name>> ELSE r.names

\* line 152
IsPipe(pipe, isatty) == pipe \/ ~isatty

MainOverrides ==
    { NoOverrides,
      [NoOverrides EXCEPT !["system"] = Stdin, !["software"] = Stdin],
      [NoOverrides EXCEPT !["system"] = Cli("system"),
                          !["ntuser.dat"] = Cli("ntuser.dat")],
      [NoOverrides EXCEPT !["ntuser.dat"] = Stdin] }

MainEnvs ==
    { NoEnv,
      [NoEnv EXCEPT !.REG_NTUSER = Some(EnvPath("ntuser.dat")),
                    !.REG_SOFTWARE = Some(Stdin)] }

MainMounts ==
    { [root |-> <<>>, fs |-> ExampleFs],
      [root |-> GoneRoot, fs |-> ExampleFs],
      [root |-> Root, fs |-> ExampleFs],
      \* the system hives and no profiles directory
      [root |-> Root,
       fs |-> MakeFs(ConfigTree("Windows", "System32", <<"SYSTEM", "SOFTWARE", "SAM">>),
                     Tree(<<>>, NoDirs))] }

\* plugin.run(): a finite sequence of results
ResultSeqs == { [k \in 1..n |-> k] : n \in 0..MaxResults }

Init ==
    /\ \E o \in MainOverrides, m \in MainMounts, all \in BOOLEAN, pipe \in BOOLEAN :
          /\ args = [MakeArgs(o, m.root, all) EXCEPT !.pipe = pipe]
          /\ fs = m.fs
          /\ \E isatty \in BOOLEAN : is_pipe = IsPipe(pipe, isatty)
    /\ env \in MainEnvs
    /\ reghive \in RegHives
    /\ hive_names = HiveNamesOf(reghive)
    /\ pc = "loop" /\ idx = 1 /\ hive_paths = <<>> /\ pidx = 1 /\ results = <<>>
    /\ stderr = <<>> /\ opened = <<>> /\ instances = <<>> /\ emitted = <<>>
    /\ status = 0
    /\ query = "" /\ ret = ReturnNone

Diag(msg, name) == [msg |-> msg, name |-> name, i |-> idx]

\* an exception is handled: the loop goes on with the next path or hive
CaughtAndSkipped(exc) ==
    /\ stderr' = Append(stderr, Diag("Traceback", exc))
    /\ status' = status
    /\ IF pc = "loop" \/ pidx >= Len(hive_paths)
       THEN pc' = "loop" /\ idx' = idx + 1 /\ pidx' = pidx
       ELSE pc' = "open" /\ idx' = idx /\ pidx' = pidx + 1

\* no try statement in the file: an exception leaves main and the
\* interpreter ends with the traceback and status 1
Uncaught(exc) ==
    /\ stderr' = Append(stderr, Diag("Traceback", exc))
    /\ status' = 1
    /\ pc' = "raised" /\ idx' = idx /\ pidx' = pidx

\* the miss ends the loop
HiveNotFoundBreaks(hive_name) ==
    /\ stderr' = Append(stderr, Diag("[!] Hive not found:", hive_name))
    /\ idx' = Len(hive_names) + 1
    /\ pc' = "loop" /\ status' = status /\ pidx' = pidx

\* lines 162-164
HiveNotFound(hive_name) ==
    /\ stderr' = Append(stderr, Diag("[!] Hive not found:", hive_name))
    /\ idx' = idx + 1
    /\ pc' = "loop" /\ status' = status /\ pidx' = pidx

\* lines 160-164, with the sys.exit of line 44
Resolve ==
    /\ pc = "loop" /\ idx <= Len(hive_names)
    /\ query' = hive_names[idx]
    /\ ret' = GetHivePaths(args, env, fs, hive_names[idx])
    /\ IF ret'.kind = "exit"
       THEN /\ stderr' = Append(stderr,
                           Diag("Error: --all-user-hives requires --root", ""))
            /\ status' = ret'.code
            /\ pc' = "exited"
            /\ UNCHANGED <<idx, pidx, hive_paths>>
       ELSE IF ret'.kind = "raise"
       THEN Uncaught(ret'.exc) /\ UNCHANGED hive_paths
       ELSE IF ret'.paths = <<>>
       THEN HiveNotFound(hive_names[idx]) /\ UNCHANGED hive_paths
       ELSE /\ hive_paths' = ret'.paths
            /\ pidx' = 1
            /\ pc' = "open"
            /\ UNCHANGED <<idx, stderr, status>>
    /\ UNCHANGED <<args, env, fs, is_pipe, hive_names, reghive, results, opened,
                   instances, emitted>>

\* the loop of line 160 is exhausted
Finish ==
    /\ pc = "loop" /\ idx > Len(hive_names)
    /\ pc' = "done"
    /\ UNCHANGED <<args, env, fs, is_pipe, hive_names, reghive, idx, hive_paths,
                   pidx, results, stderr, opened, instances, emitted, status,
                   query, ret>>

\* lines 166-171: Registry.Registry may raise on what it is given
OpenHive ==
    /\ pc = "open"
    /\ \E ok \in BOOLEAN :
          IF ok
          THEN /\ opened' = Append(opened,
                     [source |-> IF hive_paths[pidx] = Stdin THEN "stdin" ELSE "file",
                      path |-> hive_paths[pidx], i |-> idx, j |-> pidx])
               /\ pc' = "run"
               /\ UNCHANGED <<idx, pidx, stderr, status>>
          ELSE Uncaught("RegistryParse") /\ UNCHANGED opened
    /\ UNCHANGED <<args, env, fs, is_pipe, hive_names, reghive, hive_paths, results,
                   instances, emitted, query, ret>>

\* lines 173-174: the instance is made, and run, which may raise
RunPlugin ==
    /\ pc = "run"
    /\ instances' = Append(instances,
           [hive_name |-> hive_names[idx], hive_path |-> hive_paths[pidx],
            i |-> idx, j |-> pidx])
    /\ emitted' = <<>>
    /\ \/ \E rs \in ResultSeqs :
             /\ results' = rs
             /\ pc' = "display"
             /\ UNCHANGED <<idx, pidx, stderr, status>>
       \/ /\ results' = <<>>
          /\ Uncaught("PluginError")
    /\ UNCHANGED <<args, env, fs, is_pipe, hive_names, reghive, hive_paths, opened,
                   query, ret>>

Rendered(rs) ==
    [k \in 1..Len(rs) |->
        [kind |-> IF is_pipe THEN "machine" ELSE "human", n |-> rs[k]]]

UserLine == [kind |-> "info", n |-> 0]

\* lines 176-183, then the next path or the next hive name
Display ==
    /\ pc = "display"
    /\ emitted' =
          IF results # <<>>
          THEN (IF hive_paths[pidx] # Stdin /\ hive_names[idx] = "NTUSER.DAT"
                THEN <<UserLine>> ELSE <<>>) \o Rendered(results)
          ELSE <<>>
    /\ IF pidx < Len(hive_paths)
       THEN pidx' = pidx + 1 /\ pc' = "open" /\ idx' = idx
       ELSE idx' = idx + 1 /\ pc' = "loop" /\ pidx' = pidx
    /\ UNCHANGED <<args, env, fs, is_pipe, hive_names, reghive, hive_paths, results,
                   stderr, opened, instances, status, query, ret>>

Next == Resolve \/ Finish \/ OpenHive \/ RunPlugin \/ Display

Spec == Init /\ [][Next]_vars

-----------------------------------------------------------------------------
(* Properties of the dispatch loop, checked on Spec *)

Terminal == {"done", "exited", "raised"}
NoRootAllUsers == args.all_user_hives /\ args.root = <<>>
NeedsRoot(k) == Lower(hive_names[k]) \in NeedsRootNames
Resolution(k) == GetHivePaths(args, env, fs, hive_names[k])
Missed(k) == Resolution(k).kind = "return" /\ Resolution(k).paths = <<>>
IsMiss(e) == e.msg = "[!] Hive not found:"
IsTraceback(e) == e.msg = "Traceback"

\* C2 (as stated): with --all-user-hives and an empty --root, whatever the
\* plugin declares, no hive is opened and no plugin instance is made, and
\* the run ends with exit status 3.
C2_AlwaysExits3 ==
    (NoRootAllUsers /\ hive_names # <<>>) =>
        /\ opened = <<>> /\ instances = <<>>
        /\ pc \in Terminal => (pc = "exited" /\ status = 3)

\* C2 (amended): with --all-user-hives and an empty --root the run exits
\* with status 3 when, and only when, the loop reaches the first declared
\* name that is ALL, NTUSER.DAT or USRCLASS.DAT in any letter case: nothing
\* is opened and no instance is made for that name or a later one, the names
\* declared before it are processed as usual, and a plugin that declares no
\* such name never exits with status 3.
C2_Exits3AtFirstUserHive ==
    /\ (pc = "exited" \/ status = 3) =>
          /\ pc = "exited" /\ status = 3 /\ NoRootAllUsers
          /\ idx <= Len(hive_names) /\ NeedsRoot(idx)
          /\ \A k \in 1..(idx - 1) : ~NeedsRoot(k)
          /\ stderr[Len(stderr)].msg = "Error: --all-user-hives requires --root"
    /\ NoRootAllUsers =>
          /\ \A k \in 1..Len(hive_names) : (k < idx /\ k <= Len(hive_names)) => ~NeedsRoot(k)
          /\ (pc \in {"open", "run", "display", "raised"}) => ~NeedsRoot(idx)
          /\ \A n \in 1..Len(opened) : \A k \in 1..opened[n].i : ~NeedsRoot(k)
          /\ \A n \in 1..Len(instances) : \A k \in 1..instances[n].i : ~NeedsRoot(k)

C2_Witness ==
    /\ pc = "exited" /\ status = 3 /\ idx = 2
    /\ Len(opened) = 1 /\ Len(instances) = 1 /\ instances[1].i = 1

\* C3: a declared hive name that resolves to nothing gets a "Hive not found"
\* line on the error stream and no plugin instance; the loop goes on to the
\* names declared after it, which are resolved and processed, and the run
\* still ends with exit status 0.
C3_MissIsSkipped ==
    /\ \A n \in 1..Len(stderr) : IsMiss(stderr[n]) =>
          /\ stderr[n].name = hive_names[stderr[n].i]
          /\ Missed(stderr[n].i)
          /\ idx > stderr[n].i
          /\ \A m \in 1..Len(instances) : instances[m].i # stderr[n].i
          /\ \A m \in 1..Len(opened) : opened[m].i # stderr[n].i
    /\ \A k \in 1..Len(hive_names) : (k < idx /\ Missed(k)) =>
          \E n \in 1..Len(stderr) : IsMiss(stderr[n]) /\ stderr[n].i = k
    /\ pc = "done" =>
          /\ status = 0
          /\ idx = Len(hive_names) + 1
          /\ \A k \in 1..Len(hive_names) : ~Missed(k) =>
                \A j \in 1..Len(Resolution(k).paths) :
                   \E m \in 1..Len(instances) :
                      /\ instances[m].i = k /\ instances[m].j = j
                      /\ instances[m].hive_path = Resolution(k).paths[j]

C3_Witness ==
    /\ pc = "done" /\ status = 0 /\ Len(hive_names) = 2
    /\ Missed(1) /\ IsMiss(stderr[1])
    /\ \E m \in 1..Len(instances) : instances[m].i = 2

StdinOpens == { n \in 1..Len(opened) : opened[n].source = "stdin" }

\* C5 (as stated): standard input is opened as a hive at most once in a run.
C5_StdinOpenedOnce == Cardinality(StdinOpens) <= 1

\* the failures of one pair: Registry.Registry raises, run raises, the
\* RuntimeError of line 73
PairFailures == {"RegistryParse", "PluginError", "RuntimeError"}

\* C8 (as stated): a failure on one (hive-name, path) pair (the hive cannot
\* be opened, the plugin's run fails, the profiles cannot be enumerated) does
\* not keep the remaining paths and hive names from being processed: a run
\* that ends on an exception had nothing left to process.
C8_FailureKeepsGoing ==
    (pc = "raised" /\ stderr[Len(stderr)].name \in PairFailures) =>
        /\ idx = Len(hive_names)
        /\ ret.kind = "raise" \/ pidx = Len(hive_paths)

\* C8 (amended): only a hive name that resolves to nothing is skipped. A
\* failure while resolving, opening or running propagates out of main: the
\* run ends there with the traceback and exit status 1, and none of the
\* remaining paths and hive names is opened, run or rendered.
C8_FailureEndsRun ==
    /\ (\E n \in 1..Len(stderr) : IsTraceback(stderr[n])) =>
          /\ pc = "raised" /\ status = 1
          /\ IsTraceback(stderr[Len(stderr)])
          /\ \A n \in 1..(Len(stderr) - 1) : ~IsTraceback(stderr[n])
          /\ stderr[Len(stderr)].i = idx
          /\ \A m \in 1..Len(opened) :
                opened[m].i < idx \/ (opened[m].i = idx /\ opened[m].j <= pidx)
          /\ \A m \in 1..Len(instances) :
                instances[m].i < idx \/ (instances[m].i = idx /\ instances[m].j <= pidx)
    /\ pc = "raised" => \E n \in 1..Len(stderr) : IsTraceback(stderr[n])

C8_Witness ==
    /\ pc = "raised" /\ Len(hive_names) = 2 /\ idx = 1
    /\ Len(hive_paths) > 1 /\ pidx = 2 /\ ret.kind = "return"
    /\ Len(instances) = 1

\* the latest instance was made for an NTUSER.DAT hive: declared under that
\* name in some letter case, or one of the ntuser.dat paths of ALL
IsNtuser(p) ==
    \/ Lower(p.hive_name) = "ntuser.dat"
    \/ /\ Lower(p.hive_name) = "all"
       /\ LET before == Len(Sub("system").paths) + Len(Sub("software").paths)
                          + Len(Sub("sam").paths)
          IN  p.j > before /\ p.j <= before + Len(Sub("ntuser.dat").paths)

UserLines == { n \in 1..Len(emitted) : emitted[n].kind = "info" }

\* the latest instance has run and its results have been rendered
Rendering == instances # <<>> /\ pc \notin {"display"}

\* C10 (as stated): for an NTUSER.DAT hive opened from a real path, however
\* the plugin names it, a non-empty result sequence is preceded by exactly
\* one "User:" line; an empty result sequence or the stdin sentinel gives no
\* such line.
C10_UserLineForEveryNtuser ==
    Rendering =>
        LET p == instances[Len(instances)] IN
        IF IsNtuser(p) /\ p.hive_path # Stdin /\ results # <<>>
        THEN /\ Cardinality(UserLines) = 1
             /\ emitted[1] = UserLine
             /\ Len(emitted) = Len(results) + 1
        ELSE (results = <<>> \/ p.hive_path = Stdin) => UserLines = {}

\* What line 177 does: the "User:" line is written when the declared name is
\* "NTUSER.DAT" letter for letter, the path is not "-" and there are results.
UserLineForExactName ==
    Rendering =>
        LET p == instances[Len(instances)] IN
        IF p.hive_name = "NTUSER.DAT" /\ p.hive_path # Stdin /\ results # <<>>
        THEN /\ UserLines = {1}
             /\ Len(emitted) = Len(results) + 1
        ELSE UserLines = {} /\ Len(emitted) = Len(results)

====
